---- MODULE Spec2Model ----
(***************************************************************************)
(* Model of statsview: the StatsMgr polling loop, the Serve handlers of    *)
(* GCNumViewer and StaticViewer, the life cycle of the ViewManager (New,   *)
(* Start, Stop), the Viewers collection (Register) and the configuration   *)
(* (SetConfiguration and its options).                                     *)
(*                                                                         *)
(* Time is the wall clock in milliseconds.  time.Now().Unix() is the clock *)
(* truncated to seconds.  Goroutines are interleaved one statement at a    *)
(* time.  The clock advances while the loop waits in its select and while  *)
(* a Tick() call sits between reading the clock and storing the deadline;  *)
(* the body of the loop, the rest of a handler and the start of the        *)
(* goroutine take no time.                                                 *)
(***************************************************************************)
EXTENDS Integers, Sequences, FiniteSets, TLC

\* ---------------------------------------------------------------- bounds
MaxSteps == 3             \* the clock advances this many times
MaxOpts == 2              \* options given to one SetConfiguration call
MaxViews == 4             \* entries of the Viewers collection
MaxArgs == 2              \* viewers given to one Register call
MaxCalls == 12            \* pulls made one after another

\* ------------------------------------------------------ program constants
DefaultInterval == 2000
DefaultMaxPoints == 30
DefaultTimeFormat == "15:04:05"
DefaultAddr == "localhost:18066"
DefaultTheme == "macarons"
DefaultTemplate == "DefaultTemplate"
GracePeriod == 1000

None == -1

\* values of defaultCfg.Interval when New is called: the default and
\* values given to WithInterval
Intervals == {100, 1500, DefaultInterval}
\* the wall clock at which the program starts
StartClocks == {0, 900}
\* the HTTP pulls of one run; the server handles each in a goroutine of
\* its own
Reqs == {"r1", "r2"}
\* the order in which the pulls arrive
ReqOrder(r) == IF r = "r1" THEN 1 ELSE 2
\* viewer objects that can be registered, and their Name()
ViewerPool == {"g1", "g2", "s1"}
Name(v) == IF v = "s1" THEN "static" ELSE "gcnum"

VARIABLES
    clock,        \* wall clock, ms
    cfgInterval,  \* defaultCfg.Interval
    views,        \* the Viewers collection / mgr.Views
    vsmgr,        \* per viewer object: the StatsMgr it is bound to
    mgrState,     \* "none" | "ready" | "panicked" (New)
    srv,          \* http.Server: "new" | "serving" | "shutdown"
    mgrCancelled, \* mgr.Ctx is cancelled
    smgrParent,   \* the context s.Ctx was derived from
    last,         \* StatsMgr.last, the activity deadline (Unix s)
    time,         \* StatsMgr.time, the last sample time (Unix s)
    memstats,     \* the package-level statsEntity: Stats and mu
    ticker,       \* time.Ticker of the polling loop
    pollpc,       \* position of the polling goroutine
    pollLast,     \* value returned by s.GetTick() in the loop
    reqpc,        \* position of each request goroutine
    reqViewer,    \* the viewer a request was dispatched to
    reqNow,       \* the clock a Tick() call has read
    reqTmp,       \* a value a handler holds between two statements
    resp,         \* the Metrics a request has built
    i,            \* package-level counter of the static viewer
    stoppc,       \* position of ViewManager.Stop
    stopGrace,    \* expiry of Stop's context.WithTimeout
    createdAt,    \* history: clock read by NewStatsMgr
    lastNotify,   \* history: latest clock read by any Tick() call
    skipped,      \* history: a tick was handled without a refresh at this clock
    cfg,          \* defaultCfg: the fields other than Interval
    routes,       \* the patterns of mux under /debug/statsview/view/
    charts,       \* page.Charts
    calls,        \* history: StaticViewer.Serve calls entered
    stamps,       \* history: TimeUpdate calls made
    refreshes     \* history: refreshes completed (memstats.mu.Unlock)

vars == <<clock, cfgInterval, views, vsmgr, mgrState, srv, mgrCancelled,
          smgrParent, last, time, memstats, ticker, pollpc, pollLast,
          reqpc, reqViewer, reqNow, reqTmp, resp, i, stoppc,
          stopGrace, createdAt, lastNotify, skipped, cfg, routes, charts,
          calls, stamps, refreshes>>

cfgVars  == <<cfgInterval, cfg, views>>
muxVars  == <<routes, charts>>
cntVars  == <<calls, stamps, refreshes>>
mgrVars  == <<vsmgr, mgrState, srv, mgrCancelled, smgrParent, stoppc, stopGrace>>
pollVars == <<ticker, pollpc, pollLast>>
reqVars  == <<reqpc, reqViewer, reqNow, reqTmp, resp, i>>
histVars == <<createdAt, lastNotify, skipped>>

\* ------------------------------------------------------------ pure helpers

\* time.Now().Unix(): whole seconds of the clock
Unix(ms) == ms \div 1000

\* int64(float64(Interval())/1000.0)*2: the float quotient is truncated
\* to an integer before it is doubled
DeadlineExt(interval) == (interval \div 1000) * 2

\* time.Now().Unix() + int64(float64(Interval())/1000.0)*2
Deadline(now, interval) == Unix(now) + DeadlineExt(interval)

\* time.Unix(t, 0).Format("15:04:05"): the time of day
FormatTime(t) == <<(t \div 3600) % 24, (t \div 60) % 60, t % 60>>

\* a guard that also refreshes when the deadline is the current second
ShouldRefreshInclusive(l, now) == l >= Unix(now)

\* the guard of the refresh in polling
ShouldRefresh(l, now) == l > Unix(now)

\* a stamp taken from the sub-second part of the clock
SampleTimeSubsecond(now) == now % 1000

\* the value TimeUpdate stores
SampleTime(now) == Unix(now)

\* resolution of the clock: one ticker period
Granule == cfgInterval

\* s.Ctx is derived from mgr.Ctx: it is done once the parent is cancelled
SmgrDone == smgrParent = "mgr" /\ mgrCancelled

TickerActive == pollpc \notin {"none", "start", "exit"}

\* a read lock that does not wait for the writer
CanRLockUnguarded == TRUE

\* memstats.mu (sync.RWMutex): a pending Lock() blocks new readers
CanRLock == ~memstats.mu.writer /\ ~memstats.mu.pending

\* a write lock that does not wait for the readers to leave
CanLockUnguarded == ~memstats.mu.writer

\* memstats.mu.Lock() is granted when nobody holds the mutex
CanLock == ~memstats.mu.writer /\ memstats.mu.readers = {}

InFlight == {r \in Reqs : reqpc[r] \notin {"idle", "done"}}

\* a goroutine is inside a run of statements that takes no time
Urgent ==
    \/ pollpc \notin {"none", "select", "exit"}
    \/ \E r \in Reqs : reqpc[r] \notin {"idle", "store", "done"}
    \/ stoppc = "cancel"

HasDuplicateNames(vs) ==
    \E a, b \in 1..Len(vs) : a # b /\ Name(vs[a]) = Name(vs[b])

\* ------------------------------------------------------------ configuration

\* the initial value of defaultCfg
DefaultCfg ==
    [Interval |-> DefaultInterval, MaxPoints |-> DefaultMaxPoints,
     Template |-> DefaultTemplate, ListenAddr |-> DefaultAddr,
     LinkAddr |-> DefaultAddr, TimeFormat |-> DefaultTimeFormat,
     Theme |-> DefaultTheme, AutoOpenBrowser |-> FALSE]

Fields == DOMAIN DefaultCfg

\* the whole of defaultCfg
Config == [f \in Fields |-> IF f = "Interval" THEN cfgInterval ELSE cfg[f]]

\* the Option values: the function each With... call returns
WithInterval(interval, c) == [c EXCEPT !.Interval = interval]
WithMaxPoints(n, c) == [c EXCEPT !.MaxPoints = n]
WithTemplate(t, c) == [c EXCEPT !.Template = t]
WithAddr(addr, c) == [c EXCEPT !.ListenAddr = addr, !.LinkAddr = addr]

WithLinkAddr(addr, c) == [c EXCEPT !.LinkAddr = addr]
WithTimeFormat(s, c) == [c EXCEPT !.TimeFormat = s]
WithTheme(theme, c) == [c EXCEPT !.Theme = theme]
WithBrowserOpen(c) == [c EXCEPT !.AutoOpenBrowser = TRUE]

\* the options a program passes: the constructor called, with its integer
\* or string argument
Options ==
    {[name |-> "WithInterval", n |-> 100, s |-> ""],
     [name |-> "WithInterval", n |-> 1500, s |-> ""],
     [name |-> "WithMaxPoints", n |-> 10, s |-> ""],
     [name |-> "WithTemplate", n |-> 0, s |-> "tpl"],
     [name |-> "WithAddr", n |-> 0, s |-> ":8080"],
     [name |-> "WithLinkAddr", n |-> 0, s |-> "example.com"],
     [name |-> "WithTimeFormat", n |-> 0, s |-> "15:04"],
     [name |-> "WithTheme", n |-> 0, s |-> "westeros"],
     [name |-> "WithBrowserOpen", n |-> 0, s |-> ""]}

\* opt(defaultCfg)
ApplyOption(o, c) ==
    CASE o.name = "WithInterval" -> WithInterval(o.n, c)
      [] o.name = "WithMaxPoints" -> WithMaxPoints(o.n, c)
      [] o.name = "WithTemplate" -> WithTemplate(o.s, c)
      [] o.name = "WithAddr" -> WithAddr(o.s, c)
      [] o.name = "WithLinkAddr" -> WithLinkAddr(o.s, c)
      [] o.name = "WithTimeFormat" -> WithTimeFormat(o.s, c)
      [] o.name = "WithTheme" -> WithTheme(o.s, c)
      [] o.name = "WithBrowserOpen" -> WithBrowserOpen(c)

\* for _, opt := range opts { opt(defaultCfg) }
RECURSIVE ApplyOptions(_, _)
ApplyOptions(opts, c) ==
    IF opts = <<>> THEN c
    ELSE ApplyOptions(Tail(opts), ApplyOption(Head(opts), c))

\* the argument lists of SetConfiguration
OptSeqs == UNION {[1..n -> Options] : n \in 0..MaxOpts}

\* a SetConfiguration that starts from the defaults
SetConfigurationFromDefaults(c) == DefaultCfg

\* the configuration SetConfiguration applies the options to
SetConfigurationBase(c) == c

\* the argument lists of Register
ViewerSeqs == UNION {[1..n -> ViewerPool] : n \in 1..MaxArgs}

\* ------------------------------------------------------------------ Init
\* the state before New is called, whatever the configuration and the
\* Viewers collection are
InitState ==
    /\ vsmgr = [v \in ViewerPool |-> "nil"]
    /\ mgrState = "none"
    /\ srv = "new"
    /\ mgrCancelled = FALSE
    /\ smgrParent = "none"
    /\ last = 0
    /\ time = 0
    /\ memstats = [Stats |-> [NumGC |-> 0, PauseTotalNs |-> 0],
                   mu |-> [writer |-> FALSE, pending |-> FALSE, readers |-> {}]]
    /\ ticker = [C |-> FALSE, next |-> 0, stopped |-> FALSE]
    /\ pollpc = "none"
    /\ pollLast = 0
    /\ reqpc = [r \in Reqs |-> "idle"]
    /\ reqViewer = [r \in Reqs |-> "nil"]
    /\ reqNow = [r \in Reqs |-> 0]
    /\ reqTmp = [r \in Reqs |-> 0]
    /\ resp = [r \in Reqs |-> <<>>]
    /\ i = 0
    /\ stoppc = "idle"
    /\ stopGrace = 0
    /\ createdAt = None
    /\ lastNotify = None
    /\ skipped = FALSE
    /\ routes = <<>>
    /\ charts = <<>>
    /\ calls = 0
    /\ stamps = 0
    /\ refreshes = 0

\* a program that has set its interval and collected a GCNumViewer and a
\* StaticViewer
Init ==
    /\ cfgInterval \in Intervals
    /\ cfg = [f \in Fields \ {"Interval"} |-> DefaultCfg[f]]
    /\ clock \in StartClocks
    \* with an interval of whole seconds every clock reading of a run has
    \* the sub-second part of the start: one start stands for all
    /\ cfgInterval % 1000 = 0 => clock = 0
    /\ views = <<"g1", "s1">>
    /\ InitState

\* ------------------------------------------------------- setup operations

\* a StatsMgr created from context.Background()
NewStatsMgrDetached == "background"

\* the context New hands to NewStatsMgr
NewStatsMgrParent == "mgr"

\* SetConfiguration(opts...)
SetConfiguration(opts) ==
    /\ LET c == ApplyOptions(opts, SetConfigurationBase(Config))
       IN /\ cfgInterval' = c.Interval
          /\ cfg' = [f \in Fields \ {"Interval"} |-> c[f]]
    /\ UNCHANGED <<clock, views, muxVars, cntVars, mgrVars, last, time,
                   memstats, pollVars, reqVars, histVars>>

\* a Register that puts the new viewers in front
Prepended(v, vs) == vs \o v

\* append(*v, views...)
Appended(v, vs) == v \o vs

\* (*Viewers).Register(views...), on the collection that New is given later
Register(vs) ==
    /\ mgrState = "none"
    /\ Len(views) + Len(vs) <= MaxViews
    /\ views' = Appended(views, vs)
    /\ UNCHANGED <<clock, cfgInterval, cfg, muxVars, cntVars, mgrVars, last,
                   time, memstats, pollVars, reqVars, histVars>>

\* the pattern New registers the Serve of a viewer under
Pattern(v) == "/debug/statsview/view/" \o Name(v)

HasPattern(mux, pat) == \E k \in 1..Len(mux) : mux[k].pattern = pat

\* a mux on which a later registration replaces the earlier one
HandleFuncOverride(mux, pat, h) ==
    [mux |-> IF HasPattern(mux, pat)
             THEN [k \in 1..Len(mux) |->
                      IF mux[k].pattern = pat
                      THEN [pattern |-> pat, handler |-> h] ELSE mux[k]]
             ELSE Append(mux, [pattern |-> pat, handler |-> h]),
     ok |-> TRUE]

\* mux.HandleFunc(pattern, handler): http.ServeMux panics when the pattern
\* is registered already
HandleFunc(mux, pat, h) ==
    IF HasPattern(mux, pat)
    THEN [mux |-> mux, ok |-> FALSE]
    ELSE [mux |-> Append(mux, [pattern |-> pat, handler |-> h]), ok |-> TRUE]

\* for _, v := range mgr.Views { page.AddCharts(v.View());
\* mux.HandleFunc(".../view/"+v.Name(), v.Serve) }: the loop ends at the
\* first panic
RECURSIVE Wire(_, _, _)
Wire(vs, mux, page) ==
    IF vs = <<>> THEN [routes |-> mux, charts |-> page, ok |-> TRUE]
    ELSE LET v == Head(vs)
             h == HandleFunc(mux, Pattern(v), v)
         IN IF h.ok
            THEN Wire(Tail(vs), h.mux, Append(page, v))
            ELSE [routes |-> h.mux, charts |-> Append(page, v), ok |-> FALSE]

\* New(viewers): NewStatsMgr(mgr.Ctx) and its goroutine, SetStatsMgr on
\* every viewer, then the charts and the routes; a panic of HandleFunc
\* leaves New without a result
New ==
    /\ mgrState = "none"
    /\ smgrParent' = NewStatsMgrParent
    /\ last' = Deadline(clock, cfgInterval)
    /\ createdAt' = clock
    /\ pollpc' = "start"
    /\ vsmgr' = [v \in ViewerPool |->
                    IF \E k \in 1..Len(views) : views[k] = v
                    THEN "smgr" ELSE vsmgr[v]]
    /\ LET w == Wire(views, <<>>, <<>>)
       IN /\ routes' = w.routes
          /\ charts' = w.charts
          /\ mgrState' = IF w.ok THEN "ready" ELSE "panicked"
    /\ UNCHANGED <<clock, cfgVars, cntVars, srv, mgrCancelled, stoppc,
                   stopGrace, time, memstats, ticker, pollLast, reqVars,
                   lastNotify, skipped>>

\* ViewManager.Start: ListenAndServe
Start ==
    /\ mgrState = "ready"
    /\ srv = "new"
    /\ srv' = "serving"
    /\ UNCHANGED <<clock, cfgVars, muxVars, cntVars, vsmgr, mgrState, mgrCancelled, smgrParent,
                   stoppc, stopGrace, last, time, memstats, pollVars,
                   reqVars, histVars>>

\* ------------------------------------------------------------ environment

\* the clock advances; a running ticker delivers its tick on time
Advance ==
    /\ mgrState = "ready"
    /\ ~Urgent
    /\ clock + Granule <= createdAt + MaxSteps * Granule
    /\ TickerActive => clock < ticker.next
    /\ clock' = clock + Granule
    /\ skipped' = FALSE
    /\ UNCHANGED <<cfgVars, muxVars, cntVars, mgrVars, last, time, memstats, pollVars,
                   reqVars, createdAt, lastNotify>>

\* the ticker sends on ticker.C (capacity 1; a tick is dropped when full)
TickerFire ==
    /\ mgrState = "ready"
    /\ TickerActive
    /\ clock >= ticker.next
    /\ ticker' = [ticker EXCEPT !.C = TRUE, !.next = @ + cfgInterval]
    /\ UNCHANGED <<clock, cfgVars, muxVars, cntVars, mgrVars, last, time, memstats, pollpc,
                   pollLast, reqVars, histVars>>

\* --------------------------------------------------------- StatsMgr.polling

\* ticker := time.NewTicker(Interval() ms)
PollStart ==
    /\ mgrState = "ready"
    /\ pollpc = "start"
    /\ ticker' = [C |-> FALSE, next |-> clock + cfgInterval, stopped |-> FALSE]
    /\ pollpc' = "select"
    /\ UNCHANGED <<clock, cfgVars, muxVars, cntVars, mgrVars, last, time, memstats, pollLast,
                   reqVars, histVars>>

\* case <-ticker.C, then s.GetTick()
PollTick ==
    /\ mgrState = "ready"
    /\ pollpc = "select"
    /\ ticker.C
    /\ ticker' = [ticker EXCEPT !.C = FALSE]
    /\ pollLast' = last
    /\ pollpc' = "now"
    /\ UNCHANGED <<clock, cfgVars, muxVars, cntVars, mgrVars, last, time, memstats, reqVars,
                   histVars>>

\* if s.GetTick() > time.Now().Unix()
PollCheck ==
    /\ mgrState = "ready"
    /\ pollpc = "now"
    /\ pollpc' = IF ShouldRefresh(pollLast, clock) THEN "lock" ELSE "select"
    /\ pollLast' = 0
    /\ skipped' = ~ShouldRefresh(pollLast, clock)
    /\ UNCHANGED <<clock, cfgVars, muxVars, cntVars, mgrVars, last, time, memstats, ticker,
                   reqVars, createdAt, lastNotify>>

\* memstats.mu.Lock(): taken at once when the mutex is free; otherwise the
\* writer is announced, which blocks new readers
PollLock ==
    /\ mgrState = "ready"
    /\ pollpc = "lock"
    /\ IF CanLock
       THEN /\ memstats' = [memstats EXCEPT !.mu.writer = TRUE]
            /\ pollpc' = "stamp"
       ELSE /\ memstats' = [memstats EXCEPT !.mu.pending = TRUE]
            /\ pollpc' = "lockwait"
    /\ UNCHANGED <<clock, cfgVars, muxVars, cntVars, mgrVars, last, time, pollLast, ticker,
                   reqVars, histVars>>

\* memstats.mu.Lock() returns once the readers have left
PollLockAcquire ==
    /\ mgrState = "ready"
    /\ pollpc = "lockwait"
    /\ CanLock
    /\ memstats' = [memstats EXCEPT !.mu.pending = FALSE, !.mu.writer = TRUE]
    /\ pollpc' = "stamp"
    /\ UNCHANGED <<clock, cfgVars, muxVars, cntVars, mgrVars, last, time, pollLast, ticker,
                   reqVars, histVars>>

\* s.TimeUpdate()
PollTimeUpdate ==
    /\ mgrState = "ready"
    /\ pollpc = "stamp"
    /\ time' = SampleTime(clock)
    /\ stamps' = stamps + 1
    /\ pollpc' = "readmem"
    /\ UNCHANGED <<clock, cfgVars, muxVars, calls, refreshes, mgrVars, last, memstats, pollLast, ticker,
                   reqVars, histVars>>

\* runtime.ReadMemStats(memstats.Stats) fills the struct field by field;
\* every refresh reads a runtime state that differs from the previous one
PollReadMemStats ==
    /\ mgrState = "ready"
    /\ pollpc = "readmem"
    /\ memstats' = [memstats EXCEPT !.Stats.NumGC = @ + 1]
    /\ pollpc' = "readmem2"
    /\ UNCHANGED <<clock, cfgVars, muxVars, cntVars, mgrVars, last, time, pollLast, ticker,
                   reqVars, histVars>>

PollReadMemStats2 ==
    /\ mgrState = "ready"
    /\ pollpc = "readmem2"
    /\ memstats' = [memstats EXCEPT !.Stats.PauseTotalNs = memstats.Stats.NumGC]
    /\ pollpc' = "unlock"
    /\ UNCHANGED <<clock, cfgVars, muxVars, cntVars, mgrVars, last, time, pollLast, ticker,
                   reqVars, histVars>>

\* memstats.mu.Unlock()
PollUnlock ==
    /\ mgrState = "ready"
    /\ pollpc = "unlock"
    /\ memstats' = [memstats EXCEPT !.mu.writer = FALSE]
    /\ refreshes' = refreshes + 1
    /\ pollpc' = "select"
    /\ UNCHANGED <<clock, cfgVars, muxVars, calls, stamps, mgrVars, last, time, pollLast, ticker,
                   reqVars, histVars>>

\* case <-s.Ctx.Done(): break, which leaves the select and not the loop
PollDoneBreak ==
    /\ mgrState = "ready"
    /\ pollpc = "select"
    /\ SmgrDone
    /\ pollpc' = "select"
    /\ UNCHANGED <<clock, cfgVars, muxVars, cntVars, mgrVars, last, time,
                   memstats, ticker, pollLast, reqVars, histVars>>

\* case <-s.Ctx.Done(): return, and the deferred ticker.Stop().  When a tick
\* is ready as well, select takes either case.
PollDone ==
    /\ mgrState = "ready"
    /\ pollpc = "select"
    /\ SmgrDone
    /\ pollpc' = "exit"
    /\ ticker' = [ticker EXCEPT !.stopped = TRUE]
    /\ UNCHANGED <<clock, cfgVars, muxVars, cntVars, mgrVars, last, time, memstats, pollLast,
                   reqVars, histVars>>

Polling ==
    \/ PollStart \/ PollTick \/ PollCheck \/ PollLock \/ PollLockAcquire
    \/ PollTimeUpdate \/ PollReadMemStats \/ PollReadMemStats2
    \/ PollUnlock

\* ------------------------------------------------------------ Serve handlers

\* the k-th route of the mux is requested; its handler enters smgr.Tick(),
\* which reads time.Now()
ServeBegin(r, k) ==
    /\ mgrState = "ready"
    /\ srv = "serving"
    /\ reqpc[r] = "idle"
    /\ \A q \in Reqs : ReqOrder(q) < ReqOrder(r) => reqpc[q] # "idle"
    /\ k \in 1..Len(routes)
    /\ vsmgr[routes[k].handler] = "smgr"
    /\ reqViewer' = [reqViewer EXCEPT ![r] = routes[k].handler]
    /\ reqNow' = [reqNow EXCEPT ![r] = clock]
    /\ reqpc' = [reqpc EXCEPT ![r] = "store"]
    /\ lastNotify' = clock
    /\ calls' = IF Name(routes[k].handler) = "static" THEN calls + 1 ELSE calls
    /\ UNCHANGED <<clock, cfgVars, muxVars, stamps, refreshes, mgrVars, last,
                   time, memstats, pollVars, reqTmp, resp, i, createdAt,
                   skipped>>

\* atomic.StoreInt64(&s.last, ...) of Tick()
TickStore(r) ==
    /\ reqpc[r] = "store"
    /\ last' = Deadline(reqNow[r], cfgInterval)
    /\ reqNow' = [reqNow EXCEPT ![r] = 0]
    /\ reqpc' = [reqpc EXCEPT ![r] =
                    IF Name(reqViewer[r]) = "static" THEN "sread" ELSE "rlock"]
    /\ UNCHANGED <<clock, cfgVars, muxVars, cntVars, mgrVars, time, memstats, pollVars,
                   reqViewer, reqTmp, resp, i, histVars>>

\* GCNumViewer.Serve: memstats.mu.RLock()
GCNumRLock(r) ==
    /\ reqpc[r] = "rlock"
    /\ CanRLock
    /\ memstats' = [memstats EXCEPT !.mu.readers = @ \cup {r}]
    /\ reqpc' = [reqpc EXCEPT ![r] = "read"]
    /\ UNCHANGED <<clock, cfgVars, muxVars, cntVars, mgrVars, last, time, pollVars, reqViewer,
                   reqNow, reqTmp, resp, i, histVars>>

\* the Metrics literal reads memstats.Stats.NumGC and smgr.GetTime() under
\* the read lock; memstats.mu.RUnlock(); the response is written
GCNumRead(r) ==
    /\ reqpc[r] = "read"
    /\ resp' = [resp EXCEPT ![r] = [val |-> memstats.Stats.NumGC,
                                    time |-> FormatTime(time),
                                    gen |-> refreshes, tgen |-> stamps]]
    /\ memstats' = [memstats EXCEPT !.mu.readers = @ \ {r}]
    /\ reqpc' = [reqpc EXCEPT ![r] = "done"]
    /\ UNCHANGED <<clock, cfgVars, muxVars, cntVars, mgrVars, last, time, pollVars, reqViewer,
                   reqNow, reqTmp, i, histVars>>

\* a value that counts from 1
StaticValueFromOne(n) == (n + 1) % 10

\* float64(i % 10)
StaticValue(n) == n % 10

\* a handler that stamps the sample time itself before it reads it
StaticReadStamping(r) ==
    /\ reqpc[r] = "sread"
    /\ time' = SampleTime(clock)
    /\ resp' = [resp EXCEPT ![r] = [val |-> StaticValue(i),
                                    time |-> FormatTime(time'),
                                    gen |-> refreshes, tgen |-> stamps]]
    /\ reqpc' = [reqpc EXCEPT ![r] = "sinc"]
    /\ UNCHANGED <<clock, cfgVars, muxVars, cntVars, mgrVars, last, memstats,
                   pollVars, reqViewer, reqNow, reqTmp, i, histVars>>

\* StaticViewer.Serve: the Metrics literal reads i and smgr.GetTime()
StaticRead(r) ==
    /\ reqpc[r] = "sread"
    /\ resp' = [resp EXCEPT ![r] = [val |-> StaticValue(i),
                                    time |-> FormatTime(time),
                                    gen |-> refreshes, tgen |-> stamps]]
    /\ reqpc' = [reqpc EXCEPT ![r] = "sinc"]
    /\ UNCHANGED <<clock, cfgVars, muxVars, cntVars, mgrVars, last, time, memstats, pollVars,
                   reqViewer, reqNow, reqTmp, i, histVars>>

\* i++ is not atomic: the load
StaticIncLoad(r) ==
    /\ reqpc[r] = "sinc"
    /\ reqTmp' = [reqTmp EXCEPT ![r] = i]
    /\ reqpc' = [reqpc EXCEPT ![r] = "sincw"]
    /\ UNCHANGED <<clock, cfgVars, muxVars, cntVars, mgrVars, last, time, memstats, pollVars,
                   reqViewer, reqNow, resp, i, histVars>>

\* i++: the store, then the response is written
StaticIncStore(r) ==
    /\ reqpc[r] = "sincw"
    /\ i' = reqTmp[r] + 1
    /\ reqTmp' = [reqTmp EXCEPT ![r] = 0]
    /\ reqpc' = [reqpc EXCEPT ![r] = "done"]
    /\ UNCHANGED <<clock, cfgVars, muxVars, cntVars, mgrVars, last, time, memstats, pollVars,
                   reqViewer, reqNow, resp, histVars>>

\* the handler has returned and the connection asks for the next pull
ServeReturn(r) ==
    /\ reqpc[r] = "done"
    /\ calls < MaxCalls
    /\ reqpc' = [reqpc EXCEPT ![r] = "idle"]
    /\ reqViewer' = [reqViewer EXCEPT ![r] = "nil"]
    /\ resp' = [resp EXCEPT ![r] = <<>>]
    /\ UNCHANGED <<clock, cfgVars, muxVars, cntVars, mgrVars, last, time,
                   memstats, pollVars, reqNow, reqTmp, i, histVars>>

Serve(r) ==
    \/ \E k \in 1..Len(routes) : ServeBegin(r, k)
    \/ TickStore(r)
    \/ GCNumRLock(r) \/ GCNumRead(r)
    \/ StaticRead(r) \/ StaticIncLoad(r) \/ StaticIncStore(r)

\* -------------------------------------------------------- ViewManager.Stop

\* context.WithTimeout(Background, time.Second); srv.Shutdown(ctx) closes
\* the listeners: no new request is accepted
StopShutdown ==
    /\ mgrState = "ready"
    /\ stoppc = "idle"
    /\ stopGrace' = clock + GracePeriod
    /\ srv' = "shutdown"
    /\ stoppc' = "wait"
    /\ UNCHANGED <<clock, cfgVars, muxVars, cntVars, vsmgr, mgrState, mgrCancelled, smgrParent,
                   last, time, memstats, pollVars, reqVars, histVars>>

\* the context Stop cancels after Shutdown has returned
StopCancels == "mgr"

\* srv.Shutdown returns when the connections are idle or when ctx expires
\* (its error is dropped)
StopShutdownReturn ==
    /\ stoppc = "wait"
    /\ InFlight = {} \/ clock >= stopGrace
    /\ stoppc' = "cancel"
    /\ stopGrace' = 0
    /\ UNCHANGED <<clock, cfgVars, muxVars, cntVars, vsmgr, mgrState, srv, mgrCancelled,
                   smgrParent, last, time, memstats, pollVars,
                   reqVars, histVars>>

\* vm.Cancel()
StopCancel ==
    /\ stoppc = "cancel"
    /\ mgrCancelled' = (mgrCancelled \/ StopCancels = "mgr")
    /\ stoppc' = "done"
    /\ UNCHANGED <<clock, cfgVars, muxVars, cntVars, vsmgr, mgrState, srv, smgrParent,
                   stopGrace, last, time, memstats, pollVars, reqVars,
                   histVars>>

Stop == StopShutdown \/ StopShutdownReturn \/ StopCancel

\* ------------------------------------------------------------------- Next
Next ==
    \/ New
    \/ Start
    \/ Advance
    \/ TickerFire
    \/ Polling
    \/ \E r \in Reqs : Serve(r)

\* the program until Stop is called
Spec == Init /\ [][Next]_vars

\* the program with Stop, under the default configuration
InitStop == Init /\ cfgInterval = DefaultInterval

NextStop == Next \/ PollDone \/ Stop

SpecStop == InitStop /\ [][NextStop]_vars

\* a started handler runs on to its end
ServeRun(r) ==
    \/ TickStore(r)
    \/ GCNumRLock(r) \/ GCNumRead(r)
    \/ StaticRead(r) \/ StaticIncLoad(r) \/ StaticIncStore(r)

\* the Go scheduler runs every goroutine that can run, and a select with
\* several ready cases picks each of them with equal probability
FairStop ==
    /\ WF_vars(Polling)
    /\ SF_vars(PollDone)
    /\ \A r \in Reqs : WF_vars(ServeRun(r))

\* the program with Stop and one pull
NextStopOne ==
    \/ New
    \/ Start
    \/ Advance
    \/ TickerFire
    \/ Polling
    \/ PollDone
    \/ Serve("r1")
    \/ Stop

SpecStopFair == InitStop /\ [][NextStopOne]_vars /\ FairStop

\* the configuration of a program before it builds its manager
InitConfig == Init /\ cfgInterval = DefaultInterval /\ clock = 0

NextConfig == \E opts \in OptSeqs : SetConfiguration(opts)

SpecConfig == InitConfig /\ [][NextConfig]_vars

\* a program that fills a collection from NewEmptyViewers() or from a
\* one-element literal, and builds and starts its manager
InitRegistry ==
    /\ cfgInterval = DefaultInterval
    /\ cfg = [f \in Fields \ {"Interval"} |-> DefaultCfg[f]]
    /\ clock = 0
    /\ views \in {<<>>, <<"g1">>}
    /\ InitState

NextRegistry ==
    \/ \E vs \in ViewerSeqs : Register(vs)
    \/ New
    \/ Start

SpecRegistry == InitRegistry /\ [][NextRegistry]_vars

\* one connection that pulls again and again, each pull after the last
InitSeq == InitStop

NextSeq ==
    \/ New
    \/ Start
    \/ Advance
    \/ TickerFire
    \/ Polling
    \/ Serve("r1")
    \/ ServeReturn("r1")

SpecSeq == InitSeq /\ [][NextSeq]_vars

TypeOK ==
    /\ clock >= 0
    /\ cfgInterval \in Intervals
    /\ pollpc \in {"none", "start", "select", "now", "lock", "lockwait",
                   "stamp", "readmem", "readmem2", "unlock", "exit"}
    /\ memstats.mu.readers \subseteq Reqs

\* ===================================================================
\* Properties
\* ===================================================================

\* the polling loop evaluates the guard of a tick in this step
TickHandled == pollpc = "now" /\ pollpc' # "now"

\* the tick refreshes: the loop goes on to memstats.mu.Lock()
TickRefreshes == pollpc' = "lock"

\* the tick leaves the Snapshot Store and LastSampleTime alone
TickSkips ==
    /\ pollpc' = "select"
    /\ memstats'.Stats = memstats.Stats
    /\ time' = time

\* no Tick() call read the clock within the last 2 x interval
NoRecentNotify == lastNotify = None \/ clock - lastNotify > 2 * cfgInterval

\* the StatsMgr was created more than 2 x interval ago
NoRecentCreation == clock - createdAt > 2 * cfgInterval

\* no Tick() call is between its clock read and its store
NoTickInProgress == \A r \in Reqs : reqpc[r] # "store"

\* the stored deadline is the one of the latest Tick() call, and the loop
\* has loaded it
DeadlineOfLatestNotify ==
    /\ lastNotify # None
    /\ NoTickInProgress
    /\ last = Deadline(lastNotify, cfgInterval)
    /\ pollLast = last

\* C1 (as stated): a tick with no NotifyActivity call in the preceding
\* 2 x interval window performs no refresh, also right after the scheduler
\* is created and before any pull.
C1_IdleSuppressionAsStated ==
    [][(TickHandled /\ NoRecentNotify) => TickSkips]_vars

\* C1 (amended): a tick with neither a NotifyActivity call nor the creation
\* of the scheduler in the preceding 2 x interval window performs no
\* refresh: Snapshot Store and LastSampleTime are the same before and after.
C1_IdleSuppression ==
    [][(TickHandled /\ NoRecentNotify /\ NoRecentCreation) => TickSkips]_vars

\* C1 witness: an idle tick has just been handled without a refresh, after
\* the snapshot had been refreshed earlier
C1_Witness ==
    /\ skipped
    /\ pollpc = "select"
    /\ NoRecentNotify
    /\ NoRecentCreation
    /\ memstats.Stats.NumGC >= 1

\* C2: after NotifyActivity at time T, every tick handled at a time in
\* (T, T + 2 x interval] refreshes, while the scheduler is not cancelled.
C2_ActivityExtension ==
    [][(/\ TickHandled
        /\ ~SmgrDone
        /\ DeadlineOfLatestNotify
        /\ clock > lastNotify
        /\ clock <= lastNotify + 2 * cfgInterval) => TickRefreshes]_vars

\* C3: a Serve that reads the Snapshot Store and the refresh that writes it
\* are never in their critical sections together, and the reader sees a
\* snapshot whose fields belong to one refresh.
C3_ReadConsistency ==
    \A r \in Reqs : reqpc[r] = "read" =>
        /\ r \in memstats.mu.readers
        /\ ~memstats.mu.writer
        /\ pollpc \notin {"stamp", "readmem", "readmem2", "unlock"}
        /\ memstats.Stats.NumGC = memstats.Stats.PauseTotalNs

\* C3 witness: a reader is inside its critical section while the refresh
\* waits for the lock
C3_Witness ==
    \E r \in Reqs : reqpc[r] = "read" /\ pollpc = "lockwait"

\* C4: once the scheduler's context is cancelled, the loop waiting in its
\* select starts no refresh, even when a tick is pending and the deadline
\* is in the future.
C4_NoRefreshAfterCancel ==
    [][(SmgrDone /\ pollpc = "select" /\ ShouldRefresh(last, clock))
          => pollpc' # "now"]_vars

\* C5: Stop stops the server from accepting requests first and cancels the
\* context afterwards; once Stop has returned the scheduler's context is
\* done, whether or not the requests in flight have completed.
C5_StopCancels ==
    /\ stoppc \in {"idle", "wait"} => ~mgrCancelled
    /\ stoppc # "idle" => srv = "shutdown"
    /\ stoppc = "done" => (mgrCancelled /\ SmgrDone)
    /\ (stoppc = "done" /\ pollpc = "select") => ENABLED PollDone

\* C5 witness: Stop has returned while a request is still in flight
C5_Witness ==
    /\ stoppc = "done"
    /\ InFlight # {}
    /\ pollpc = "select"

\* C6: the deadline stored by Tick() and the initial deadline are the
\* current Unix time plus twice the interval, for every interval in ms.
C6_DeadlineFormula ==
    [][/\ \A r \in Reqs :
             (reqpc[r] = "store" /\ reqpc'[r] # "store") =>
                 (last' - Unix(reqNow[r])) * 1000 = 2 * cfgInterval
       /\ (mgrState = "none" /\ mgrState' = "ready") =>
                 (last' - Unix(clock)) * 1000 = 2 * cfgInterval]_vars

\* C7: the stored deadline never decreases under concurrent Tick() calls.
C7_DeadlineMonotone ==
    [][mgrState = "ready" => last' >= last]_vars

\* C8: with interval = 100 ms, a Serve makes the next tick (within 100 ms)
\* refresh.
C8_SuspendResume ==
    [][(/\ cfgInterval = 100
        /\ TickHandled
        /\ DeadlineOfLatestNotify
        /\ clock > lastNotify
        /\ clock - lastNotify <= 100) => TickRefreshes]_vars

\* C9: LastSampleTime never decreases and is changed by nothing but the
\* TimeUpdate of a refresh.
C9_MonotonicSampleTime ==
    [][/\ time' >= time
       /\ time' # time => (pollpc = "stamp" /\ pollpc' = "readmem")]_vars

\* C9 witness: a second refresh has stamped a later sample time
C9_Witness ==
    /\ memstats.Stats.NumGC >= 2
    /\ time > Unix(createdAt) + 1
    /\ pollpc = "select"

\* C10: every registered viewer is bound to the one StatsMgr, and a Serve
\* on the static viewer alone makes the following tick refresh the snapshot.
C10_AnyViewerKeepsFresh ==
    [][/\ mgrState = "ready" =>
             \A k \in 1..Len(views) : vsmgr[views[k]] = "smgr"
       /\ (/\ TickHandled
           /\ DeadlineOfLatestNotify
           /\ \A r \in Reqs : reqViewer[r] \in {"nil", "s1"}
           /\ clock > lastNotify
           /\ clock - lastNotify <= cfgInterval) => TickRefreshes]_vars

\* a StaticViewer.Serve call builds its Metrics in this step
StaticReads(r) == reqpc[r] = "sread" /\ reqpc'[r] = "sinc"

\* a StaticViewer.Serve call completes its i++ in this step
StaticIncrements(r) == reqpc[r] = "sincw" /\ reqpc'[r] = "done"

\* C11: with the calls made one after another from counter 0, the N-th
\* StaticViewer.Serve returns (N-1) mod 10 and increments the counter by
\* exactly one, whatever the refreshes do.
C11_StaticSequence ==
    [][/\ \A r \in Reqs :
             /\ StaticReads(r) => resp'[r].val = (calls - 1) % 10
             /\ StaticIncrements(r) => (i' = i + 1 /\ i' = calls)
       /\ i' # i => \E r \in Reqs : StaticIncrements(r)]_vars

\* C11 witness: the twelfth call in a row has returned 1, after the counter
\* wrapped around and the snapshot was refreshed
C11_Witness ==
    /\ calls = 12
    /\ reqpc["r1"] = "done"
    /\ reqViewer["r1"] = "s1"
    /\ resp["r1"].val = 1
    /\ i = 12
    /\ refreshes >= 1

\* New runs in this step
NewCalled == mgrState = "none" /\ mgrState' # "none"

\* a Register call appends its arguments, in their order, to the entries
\* that are there
RegisterAppends ==
    views' # views => \E vs \in ViewerSeqs : views' = views \o vs

\* New returns a manager with one route and one chart per entry, in the
\* order of the collection
WiredInOrder ==
    /\ mgrState' = "ready"
    /\ Len(routes') = Len(views)
    /\ \A k \in 1..Len(views) :
           routes'[k] = [pattern |-> Pattern(views[k]), handler |-> views[k]]
    /\ charts' = views

\* C12 (as stated): Register appends in argument order and New wires one
\* handler and one chart per entry, for any sequence of Register calls.
C12_RegisterAndWireAsStated ==
    [][RegisterAppends /\ (NewCalled => WiredInOrder)]_vars

\* C12 (amended): Register appends in argument order for any sequence of
\* Register calls; when no two entries have the same Name(), New wires one
\* handler per entry, in order, under /debug/statsview/view/<Name()>, and
\* adds one chart per entry in the same order.
C12_RegisterAndWire ==
    [][/\ RegisterAppends
       /\ (NewCalled /\ ~HasDuplicateNames(views)) => WiredInOrder]_vars

\* C12 witness: a manager built from a collection that Register filled up
\* with the static viewer first
C12_Witness ==
    /\ mgrState = "ready"
    /\ views = <<"s1", "g1">>
    /\ Len(routes) = 2
    /\ routes[1].handler = "s1"

\* the first entry of the collection with the name of entry k
FirstOfName(k) ==
    views[CHOOSE a \in 1..k :
            /\ Name(views[a]) = Name(views[k])
            /\ \A b \in 1..(a - 1) : Name(views[b]) # Name(views[k])]

\* the last entry of the collection with the name of entry k
LastOfName(k) ==
    views[CHOOSE a \in k..Len(views) :
            /\ Name(views[a]) = Name(views[k])
            /\ \A b \in (a + 1)..Len(views) : Name(views[b]) # Name(views[k])]

\* C13 (as stated): with two entries of the same Name(), New does not fail
\* and the route is bound to the handler of the last-registered of them.
C13_DuplicateOverridesAsStated ==
    [][(NewCalled /\ HasDuplicateNames(views)) =>
          /\ mgrState' = "ready"
          /\ \A k \in 1..Len(views) :
                \E j \in 1..Len(routes') :
                    routes'[j] = [pattern |-> Pattern(views[k]),
                                  handler |-> LastOfName(k)]]_vars

\* C13 (amended): with two entries of the same Name(), New fails: the mux
\* panics at the second registration of the pattern, no manager is
\* returned (so none is started), and no binding is overridden: every
\* pattern registered so far is bound once, to the first entry of its name.
C13_DuplicatePanics ==
    [][/\ (NewCalled /\ HasDuplicateNames(views)) =>
             /\ mgrState' = "panicked"
             /\ Len(routes') < Len(views)
             /\ \A j \in 1..Len(routes') :
                   /\ routes'[j] = [pattern |-> Pattern(views[j]),
                                    handler |-> FirstOfName(j)]
                   /\ \A h \in 1..Len(routes') :
                         routes'[h].pattern = routes'[j].pattern => h = j
       /\ mgrState = "panicked" => (srv' = "new" /\ routes' = routes)]_vars

\* C13 witness: New has panicked on the second GCNumViewer of a collection
\* whose static route was registered before
C13_Witness ==
    /\ mgrState = "panicked"
    /\ views = <<"g1", "s1", "g2">>
    /\ Len(routes) = 2
    /\ Len(charts) = 3

\* the fields an option is documented to set
Touches(o) ==
    CASE o.name = "WithInterval" -> {"Interval"}
      [] o.name = "WithMaxPoints" -> {"MaxPoints"}
      [] o.name = "WithTemplate" -> {"Template"}
      [] o.name = "WithAddr" -> {"ListenAddr", "LinkAddr"}
      [] o.name = "WithLinkAddr" -> {"LinkAddr"}
      [] o.name = "WithTimeFormat" -> {"TimeFormat"}
      [] o.name = "WithTheme" -> {"Theme"}
      [] o.name = "WithBrowserOpen" -> {"AutoOpenBrowser"}

\* the value an option is documented to set them to
OptionValue(o) ==
    IF o.name = "WithBrowserOpen" THEN TRUE
    ELSE IF o.name \in {"WithInterval", "WithMaxPoints"} THEN o.n
    ELSE o.s

\* field f after the options opts, in argument order, on top of c: the
\* value of the last option that sets f, or else the value in c
ExpectedField(f, opts, c) ==
    LET ks == {k \in 1..Len(opts) : f \in Touches(opts[k])}
    IN IF ks = {} THEN c[f]
       ELSE OptionValue(opts[CHOOSE k \in ks : \A j \in ks : j <= k])

\* every argument list, applied to the current configuration, gives each
\* field the value of the last option that sets it and leaves the others
OptionsFrame ==
    \A opts \in OptSeqs :
        ApplyOptions(opts, Config) =
            [f \in Fields |-> ExpectedField(f, opts, Config)]

\* a field changes only to a value that an option for that field gives;
\* the configuration is one record, kept in two variables
ChangedByOption ==
    \A f \in Fields :
        Config'[f] # Config[f] =>
            \E o \in Options : f \in Touches(o) /\ Config'[f] = OptionValue(o)

\* C14: SetConfiguration applies its options in argument order on top of
\* the current values; each option changes only its own fields, untouched
\* fields keep their value, and no call resets a field to its default.
C14_ConfigurationFrame ==
    []OptionsFrame /\ [][ChangedByOption]_vars

\* C14 witness: after WithInterval(1500), WithAddr and then WithLinkAddr the
\* two addresses differ and the other fields still hold their defaults
C14_Witness ==
    /\ cfgInterval = 1500
    /\ cfg.ListenAddr = ":8080"
    /\ cfg.LinkAddr = "example.com"
    /\ cfg.Theme = DefaultTheme
    /\ cfg.MaxPoints = DefaultMaxPoints
    /\ ~cfg.AutoOpenBrowser

\* C15: a handled tick refreshes if and only if now <= ActivityDeadline
\* (the deadline as the loop has read it), also when now equals the
\* deadline; a tick with now > deadline changes neither the Snapshot
\* Store, nor LastSampleTime, nor the deadline.
C15_RefreshGuard ==
    [][TickHandled =>
          /\ TickRefreshes <=> Unix(clock) <= pollLast
          /\ Unix(clock) > pollLast => (TickSkips /\ last' = last)]_vars

\* request r takes a step of its Serve
ServeStep(r) == reqpc'[r] # reqpc[r] /\ reqpc[r] # "done"

\* the statement of Tick() that stores the deadline
NotifyStores(r) == reqpc[r] = "store" /\ reqpc'[r] # "store"

\* C16: only the refresh, inside its exclusive section, modifies the
\* Snapshot Store and LastSampleTime; a Serve notifies first and builds its
\* response afterwards; of the shared data a Serve changes the deadline
\* only (and StaticViewer its counter), and once the scheduler exists
\* nothing but NotifyActivity changes the deadline.  The state of the
\* lock itself is not counted as data.
C16_SingleWriter ==
    [][/\ memstats'.Stats # memstats.Stats =>
             (pollpc \in {"readmem", "readmem2"} /\ memstats.mu.writer)
       /\ time' # time => (pollpc = "stamp" /\ memstats.mu.writer)
       /\ (mgrState = "ready" /\ last' # last) =>
             \E r \in Reqs : NotifyStores(r)
       /\ \A r \in Reqs :
             /\ resp'[r] # resp[r] => reqpc[r] \in {"read", "sread"}
             /\ ServeStep(r) =>
                   /\ memstats'.Stats = memstats.Stats
                   /\ time' = time
                   /\ last' # last => NotifyStores(r)
                   /\ i' # i => Name(reqViewer[r]) = "static"
                   /\ UNCHANGED <<cfgVars, muxVars, vsmgr, mgrState,
                                  mgrCancelled, ticker, pollpc>>]_vars

\* C16 witness: a pull of each viewer has completed around a refresh
C16_Witness ==
    /\ \A r \in Reqs : reqpc[r] = "done"
    /\ reqViewer["r1"] = "g1"
    /\ reqViewer["r2"] = "s1"
    /\ resp["r1"].val = 0
    /\ refreshes >= 1
    /\ i = 1

\* request r has built its response
Answered(r) == resp[r] # <<>>

\* C17: the registered viewers have routes of their own, and two Serve
\* calls that read with no refresh completing in between return the same
\* time label.
C17_SharedTimeLabel ==
    /\ mgrState = "ready" =>
          \A j, k \in 1..Len(routes) :
              j # k => (/\ routes[j].pattern # routes[k].pattern
                        /\ routes[j].handler # routes[k].handler)
    /\ \A r, q \in Reqs :
          (Answered(r) /\ Answered(q) /\ resp[r].gen = resp[q].gen) =>
              resp[r].time = resp[q].time

\* C18: the polling loop exits only when its context is done, and once the
\* context is cancelled it eventually exits and stops its ticker, under
\* fair scheduling, whatever ticks arrive and whoever holds the lock.
C18_LoopTerminates ==
    /\ [](pollpc = "exit" => (SmgrDone /\ ticker.stopped))
    /\ (SmgrDone ~> (pollpc = "exit" /\ ticker.stopped))

\* C18 witness: the loop has exited after a refresh that began after the
\* cancellation, with a pull still in flight
C18_Witness ==
    /\ pollpc = "exit"
    /\ ticker.stopped
    /\ refreshes >= 2
    /\ InFlight # {}

\* C19: a response of GCNumViewer pairs the statistics of one refresh with
\* the LastSampleTime of the same refresh: the number of refreshes its
\* value comes from is the number of TimeUpdate calls its time comes from.
C19_SameGeneration ==
    \A r \in Reqs :
        (Answered(r) /\ Name(reqViewer[r]) = "gcnum") =>
            /\ resp[r].val = resp[r].tgen
            /\ resp[r].gen = resp[r].tgen

\* C19 witness: a GCNumViewer response of the first refresh, read while the
\* second refresh was waiting for the lock, and the second refresh is done
C19_Witness ==
    \E r \in Reqs :
        /\ Answered(r)
        /\ reqViewer[r] = "g1"
        /\ resp[r].val = 1
        /\ refreshes = 2

\* C20: concurrent StaticViewer.Serve calls advance the counter by their
\* number and return pairwise distinct values: no increment is lost and no
\* two calls see the same counter.
C20_ConcurrentStatic ==
    (\A r \in Reqs : reqpc[r] = "done" /\ reqViewer[r] = "s1") =>
        /\ i = Cardinality(Reqs)
        /\ \A r, q \in Reqs : r # q => resp[r].val # resp[q].val

\* request r builds its response in this step
Answers(r) == resp'[r] # resp[r] /\ resp'[r] # <<>>

\* C21: until the first refresh of the StatsMgr has completed, every Serve
\* returns the time label of Unix time 0, GCNumViewer with the all-zero
\* statistics, and LastSampleTime leaves 0 only by the TimeUpdate of a
\* refresh.
C21_TimeZeroBeforeFirstRefresh ==
    [][/\ \A r \in Reqs :
             (Answers(r) /\ refreshes = 0) =>
                 /\ resp'[r].time = FormatTime(0)
                 /\ Name(reqViewer[r]) = "gcnum" => resp'[r].val = 0
       /\ (time = 0 /\ time' # 0) => pollpc = "stamp"]_vars

====
